---- MODULE Spec2Model ----
(***************************************************************************)
(* Model of the job-status reconciler (chatbot-ui/src/utils/jobPolling.ts) *)
(* and of the generation stream consumer (chatbot-ui/src/api/agents.api.ts *)
(* with chatbot-ui/src/store/chatStore.ts).                                *)
(*                                                                         *)
(* Spec       one startJobPolling session against one job record           *)
(* SpecStream one executeStream call feeding sendMessageStreaming          *)
(***************************************************************************)
EXTENDS Integers, Sequences, FiniteSets, TLC

\* ------------------------------------------------------------------ bounds
\* progress values run over 0..MaxProgress (0..100 in the program)
MaxProgress == 2
\* frames the server pushes on one subscription
MaxFrames == 2
\* frames in flight on the push channel
MaxChan == 1
\* the option maxAttempts of pollJobStatus (default 300), set small
maxAttempts == 2

Null == "null"
Results == {"R"}
Errors == {"E"}

\* error messages of jobPolling.ts
MsgNoResult == "Job completed but no result returned"
MsgFailedUnknown == "Job failed with unknown error"
MsgParse == "Failed to parse job update"
MsgConnection == "Stream connection failed"
MsgStreamTimeout == "Stream timeout after 5 minutes"
MsgPollTimeout == "Job polling timeout: maximum attempts reached"
MsgUnknownStatus == "Unknown job status: unknown"
MsgReadFailed == "Network Error"
MsgServerError == "Job not found"
MsgNotFound == "Request failed with status code 404"

VARIABLES
  job,            \* the job record held by the server
  useStreaming,   \* options.useStreaming !== false
  cancelled,      \* startJobPolling: let cancelled
  fallbackActive, \* startJobPolling: let fallbackActive
  es,             \* the EventSource: "none", "open" or "closed"
  completed,      \* streamJobStatus: let completed
  streamPromise,  \* the promise streamJobStatus returns
  sseTimer,       \* the 5 minute setTimeout of streamJobStatus
  channel,        \* frames pushed by the server and not yet delivered
  emitted,        \* number of frames pushed so far
  pollPc,         \* pollJobStatus: "none", "requesting", "waiting", "done"
  attempts,       \* pollJobStatus: let attempts
  pollPromise,    \* the promise pollJobStatus returns
  calls           \* the caller's callbacks invoked so far, in order

VARIABLES
  sent,               \* the lines the server writes to the response body
  rest,               \* bytes of the body the reader has not returned yet
  buffer,             \* executeStream: let buffer
  dispatched,         \* callbacks executeStream has invoked, in order
  streamPc,           \* executeStream: "idle", "fetching", "reading",
                      \* "returned" or "threw"
  messages,           \* chat store: messages
  accumulatedContent, \* sendMessageStreaming: let accumulatedContent
  isExecuting,        \* chat store: isExecuting
  storeError,         \* chat store: error
  storage             \* localStorage entry chat_history_<agent id>

streamVars == <<sent, rest, buffer, dispatched, streamPc, messages,
                accumulatedContent, isExecuting, storeError, storage>>

jobVars == <<job, useStreaming, cancelled, fallbackActive, es, completed,
             streamPromise, sseTimer, channel, emitted, pollPc, attempts,
             pollPromise, calls>>

\* ------------------------------------------------------------ job record
JobRecord(s, p, r, e) == [status |-> s, progress |-> p, result |-> r, error |-> e]

\* the Job Runner runs on its own thread of control: it changes the record
\* and nothing of the client
clientVars == <<useStreaming, cancelled, fallbackActive, es, completed,
                streamPromise, sseTimer, channel, emitted, pollPc, attempts,
                pollPromise, calls>>

Terminal(j) == j.status \in {"completed", "failed"}

\* Job Runner: pending -> running
JobStart ==
  /\ job.status = "pending"
  /\ job' = [job EXCEPT !.status = "running"]
  /\ UNCHANGED clientVars

\* Job Runner: update_progress, non-decreasing while running
JobProgress ==
  /\ job.status = "running"
  /\ \E p \in (job.progress + 1)..MaxProgress : job' = [job EXCEPT !.progress = p]
  /\ UNCHANGED clientVars

\* Job Runner: complete(job_id, result); JobResponse.result is Index | null
JobComplete ==
  /\ job.status = "running"
  /\ \E r \in Results \cup {Null} :
       job' = [job EXCEPT !.status = "completed", !.result = r]
  /\ UNCHANGED clientVars

\* Job Runner: fail(job_id, error); JobResponse.error is string | null
JobFail ==
  /\ job.status \in {"pending", "running"}
  /\ \E e \in Errors \cup {Null} :
       job' = [job EXCEPT !.status = "failed", !.error = e]
  /\ UNCHANGED clientVars

\* ------------------------------------------------------------- promises
Pending == [state |-> "pending", value |-> Null]
NoPromise == [state |-> "none", value |-> Null]
Resolved(v) == [state |-> "resolved", value |-> v]
Rejected(m) == [state |-> "rejected", value |-> m]

\* ------------------------------------------------- the wrapped callbacks
Call(cb, arg, via) == [cb |-> cb, arg |-> arg, via |-> via]

\* wrappedOptions.onProgress
wrappedOnProgress(c, p) ==
  IF ~cancelled THEN Append(c, Call("onProgress", p, "poll")) ELSE c

\* wrappedOptions.onComplete
wrappedOnComplete(c, r) ==
  IF ~cancelled THEN Append(c, Call("onComplete", r, "poll")) ELSE c

\* mutant: the guard on cancelled is missing
wrappedOnError_NoCancelCheck(c, m) == Append(c, Call("onError", m, "poll"))

\* wrappedOptions.onError
wrappedOnError(c, m) ==
  IF ~cancelled THEN Append(c, Call("onError", m, "poll")) ELSE c

\* sseOptionsWithFallback.onProgress
sseOnProgress(c, p) ==
  IF ~cancelled THEN Append(c, Call("onProgress", p, "push")) ELSE c

\* sseOptionsWithFallback.onComplete
sseOnComplete(c, r) ==
  IF ~cancelled THEN Append(c, Call("onComplete", r, "push")) ELSE c

\* mutant: the push wrapper forwards to options.onError
sseOnError_Forward(c, m) ==
  IF ~cancelled THEN Append(c, Call("onError", m, "push")) ELSE c

\* sseOptionsWithFallback.onError: logs only
sseOnError(c, m) == c

\* ------------------------------------------------------------ poll loop
\* the catch block of poll: reports error.message
PollCatch(c, m) == wrappedOnError(c, m)

\* onError?.(msg); throw new Error(msg) inside the try of poll: the throw
\* lands in the catch block of the same invocation
PollThrow(c, m) == PollCatch(wrappedOnError(c, m), m)

\* mutant: the attempt limit is not looked at
PollInvoke_NoLimit(c) ==
  /\ attempts' = attempts + 1
  /\ calls' = c
  /\ pollPc' = "requesting"
  /\ pollPromise' = Pending

\* one invocation of poll() up to its first await, c the callbacks so far
PollInvoke(c) ==
  /\ attempts' = attempts + 1
  /\ IF attempts + 1 > maxAttempts
       THEN /\ calls' = PollThrow(c, MsgPollTimeout)
            /\ pollPc' = "done"
            /\ pollPromise' = Rejected(MsgPollTimeout)
       ELSE /\ calls' = c
            /\ pollPc' = "requesting"
            /\ pollPromise' = Pending

\* reject(...) of the stream promise, then the catch handler of
\* startJobPolling as the microtask that follows
RejectStream(c, m) ==
  IF streamPromise.state = "pending"
    THEN /\ streamPromise' = Rejected(m)
         /\ IF ~cancelled /\ ~fallbackActive
              THEN /\ fallbackActive' = TRUE
                   /\ PollInvoke(c)
              ELSE /\ calls' = c
                   /\ UNCHANGED <<fallbackActive, pollPc, attempts, pollPromise>>
    ELSE /\ calls' = c
         /\ UNCHANGED <<streamPromise, fallbackActive, pollPc, attempts, pollPromise>>

\* ------------------------------------------------------- push channel
\* a frame of the job stream: event.data, JSON text or not
Frame(kind, j) == [kind |-> kind, status |-> j.status, progress |-> j.progress,
                   result |-> j.result, error |-> j.error]

JobFrame(j) == Frame("json", j)
ErrorFrame == Frame("json", JobRecord(Null, 0, Null, MsgServerError))
MalformedFrame == Frame("malformed", JobRecord(Null, 0, Null, Null))

\* the server writes one frame to an open subscription
ServerPush ==
  /\ es = "open"
  /\ emitted < MaxFrames
  /\ Len(channel) < MaxChan
  /\ \E f \in {JobFrame(job), ErrorFrame, MalformedFrame} :
       channel' = Append(channel, f)
  /\ emitted' = emitted + 1
  /\ UNCHANGED <<job, useStreaming, cancelled, fallbackActive, es, completed,
                 streamPromise, sseTimer, pollPc, attempts, pollPromise, calls>>

\* mutant: close() leaves the subscription open
CloseEs_LeaveOpen ==
  /\ es' = "open"
  /\ channel' = <<>>

\* eventSource.close(): frames still in flight are never delivered
CloseEs ==
  /\ es' = "closed"
  /\ channel' = <<>>

\* onmessage, the catch block: JSON.parse threw
OnMalformed(f) ==
  /\ CloseEs
  /\ RejectStream(sseOnError(calls, MsgParse), MsgParse)
  /\ UNCHANGED completed

\* onmessage, data.error is neither null nor undefined
OnErrorField(f) ==
  /\ CloseEs
  /\ RejectStream(sseOnError(calls, f.error), f.error)
  /\ UNCHANGED completed

\* mutant: the completed branch rejects where it should resolve
OnCompletedFrame_Reject(f) ==
  /\ CloseEs
  /\ completed' = TRUE
  /\ IF f.result # Null
       THEN RejectStream(sseOnComplete(sseOnProgress(calls, f.progress), f.result),
                         MsgNoResult)
       ELSE RejectStream(sseOnError(sseOnProgress(calls, f.progress), MsgNoResult),
                         MsgNoResult)

\* onmessage, job.status === 'completed'
OnCompletedFrame(f) ==
  /\ CloseEs
  /\ completed' = TRUE
  /\ IF f.result # Null
       THEN /\ calls' = sseOnComplete(sseOnProgress(calls, f.progress), f.result)
            /\ streamPromise' = IF streamPromise.state = "pending"
                                  THEN Resolved(f.result) ELSE streamPromise
            /\ UNCHANGED <<fallbackActive, pollPc, attempts, pollPromise>>
       ELSE RejectStream(sseOnError(sseOnProgress(calls, f.progress), MsgNoResult),
                         MsgNoResult)

\* onmessage, job.status === 'failed' (reached when job.error is null)
OnFailedFrame(f) ==
  /\ CloseEs
  /\ completed' = TRUE
  /\ RejectStream(sseOnError(sseOnProgress(calls, f.progress), MsgFailedUnknown),
                  MsgFailedUnknown)

\* onmessage, any other status: progress only
OnProgressFrame(f) ==
  /\ calls' = sseOnProgress(calls, f.progress)
  /\ channel' = Tail(channel)
  /\ UNCHANGED <<es, completed, streamPromise, fallbackActive, pollPc, attempts,
                 pollPromise>>

\* eventSource.onmessage
SseMessage ==
  /\ es = "open"
  /\ channel # <<>>
  /\ LET f == Head(channel) IN
       IF f.kind = "malformed" THEN OnMalformed(f)
       ELSE IF f.error # Null THEN OnErrorField(f)
       ELSE IF f.status = "completed" THEN OnCompletedFrame(f)
       ELSE IF f.status = "failed" THEN OnFailedFrame(f)
       ELSE OnProgressFrame(f)
  /\ UNCHANGED <<job, useStreaming, cancelled, sseTimer, emitted>>

\* mutant: onerror leaves the EventSource open
SseError_NoClose ==
  /\ es = "open"
  /\ streamPromise.state = "pending"
  /\ RejectStream(sseOnError(calls, MsgConnection), MsgConnection)
  /\ UNCHANGED <<job, useStreaming, cancelled, completed, sseTimer, emitted, es,
                 channel>>

\* eventSource.onerror
SseError ==
  /\ es = "open"
  /\ CloseEs
  /\ IF ~completed
       THEN RejectStream(sseOnError(calls, MsgConnection), MsgConnection)
       ELSE UNCHANGED <<streamPromise, fallbackActive, pollPc, attempts,
                        pollPromise, calls>>
  /\ UNCHANGED <<job, useStreaming, cancelled, completed, sseTimer, emitted>>

\* mutant: the timer callback does nothing
SseTimeout_Idle ==
  /\ sseTimer = "pending"
  /\ sseTimer' = "fired"
  /\ UNCHANGED <<es, channel, streamPromise, fallbackActive, pollPc, attempts,
                 pollPromise, calls>>
  /\ UNCHANGED <<job, useStreaming, cancelled, completed, emitted>>

\* the setTimeout(..., 300000) callback of streamJobStatus
SseTimeout ==
  /\ sseTimer = "pending"
  /\ sseTimer' = "fired"
  /\ IF ~completed
       THEN /\ CloseEs
            /\ RejectStream(sseOnError(calls, MsgStreamTimeout), MsgStreamTimeout)
       ELSE UNCHANGED <<es, channel, streamPromise, fallbackActive, pollPc,
                        attempts, pollPromise, calls>>
  /\ UNCHANGED <<job, useStreaming, cancelled, completed, emitted>>

\* ------------------------------------------------------------ polling
\* what jobsApi.getStatus can produce: the record, a record with a status
\* outside the four, or a rejected request (no response, or 404 for a job
\* id the server does not know), error holding the message of the AxiosError
ReadError == [kind |-> "readError", status |-> Null, progress |-> 0,
              result |-> Null, error |-> MsgReadFailed]

NotFoundError == [ReadError EXCEPT !.error = MsgNotFound]

PollReplies ==
  {Frame("json", job), Frame("json", [job EXCEPT !.status = "unknown"]), ReadError,
   NotFoundError}

\* case 'pending', case 'running'
PollRunning(r) ==
  /\ calls' = wrappedOnProgress(calls, r.progress)
  /\ pollPc' = "waiting"
  /\ UNCHANGED pollPromise

\* job.error || 'Job failed with unknown error'
FailedMsg(r) == IF r.error # Null THEN r.error ELSE MsgFailedUnknown

\* mutant: case 'completed' falls through into case 'failed'
PollCompleted_Fallthrough(r) ==
  /\ pollPc' = "done"
  /\ calls' = PollThrow(wrappedOnComplete(calls, r.result), FailedMsg(r))
  /\ pollPromise' = Rejected(FailedMsg(r))

\* case 'completed'
PollCompleted(r) ==
  /\ pollPc' = "done"
  /\ IF r.result # Null
       THEN /\ calls' = wrappedOnComplete(calls, r.result)
            /\ pollPromise' = Resolved(r.result)
       ELSE /\ calls' = PollThrow(calls, MsgNoResult)
            /\ pollPromise' = Rejected(MsgNoResult)

\* case 'failed'
PollFailed(r) ==
  /\ pollPc' = "done"
  /\ calls' = PollThrow(calls, FailedMsg(r))
  /\ pollPromise' = Rejected(FailedMsg(r))

\* default
PollUnknown(r) ==
  /\ pollPc' = "done"
  /\ calls' = PollThrow(calls, MsgUnknownStatus)
  /\ pollPromise' = Rejected(MsgUnknownStatus)

\* mutant: a failed status read is reported before it is thrown, as the
\* other failures are
PollReadFailed_ReportTwice(r) ==
  /\ pollPc' = "done"
  /\ calls' = PollThrow(calls, r.error)
  /\ pollPromise' = Rejected(r.error)

\* await jobsApi.getStatus(jobId) rejected
PollReadFailed(r) ==
  /\ pollPc' = "done"
  /\ calls' = PollCatch(calls, r.error)
  /\ pollPromise' = Rejected(r.error)

\* poll() resumes with the reply of jobsApi.getStatus
PollResponse ==
  /\ pollPc = "requesting"
  /\ \E r \in PollReplies :
       IF r.kind = "readError" THEN PollReadFailed(r)
       ELSE IF r.status \in {"pending", "running"} THEN PollRunning(r)
       ELSE IF r.status = "completed" THEN PollCompleted(r)
       ELSE IF r.status = "failed" THEN PollFailed(r)
       ELSE PollUnknown(r)
  /\ UNCHANGED <<job, useStreaming, cancelled, fallbackActive, es, completed,
                 streamPromise, sseTimer, channel, emitted, attempts>>

\* the pollInterval timer fires: return poll()
PollTimer ==
  /\ pollPc = "waiting"
  /\ PollInvoke(calls)
  /\ UNCHANGED <<job, useStreaming, cancelled, fallbackActive, es, completed,
                 streamPromise, sseTimer, channel, emitted>>

\* the function startJobPolling returns
Cancel ==
  /\ ~cancelled
  /\ cancelled' = TRUE
  /\ UNCHANGED <<job, useStreaming, fallbackActive, es, completed, streamPromise,
                 sseTimer, channel, emitted, pollPc, attempts, pollPromise, calls>>

\* startJobPolling has returned: the stream is being opened, or the first
\* poll() has issued its request
JobInit ==
  /\ job = JobRecord("pending", 0, Null, Null)
  /\ useStreaming \in BOOLEAN
  /\ cancelled = FALSE
  /\ fallbackActive = FALSE
  /\ completed = FALSE
  /\ channel = <<>>
  /\ emitted = 0
  /\ es = IF useStreaming THEN "open" ELSE "none"
  /\ streamPromise = IF useStreaming THEN Pending ELSE NoPromise
  /\ sseTimer = IF useStreaming THEN "pending" ELSE "none"
  /\ attempts = IF useStreaming THEN 0 ELSE 1
  /\ pollPc = IF useStreaming THEN "none"
              ELSE IF 1 > maxAttempts THEN "done" ELSE "requesting"
  /\ pollPromise = IF useStreaming THEN NoPromise
                   ELSE IF 1 > maxAttempts THEN Rejected(MsgPollTimeout) ELSE Pending
  /\ calls = IF ~useStreaming /\ 1 > maxAttempts
               THEN <<Call("onError", MsgPollTimeout, "poll"),
                      Call("onError", MsgPollTimeout, "poll")>>
               ELSE <<>>

\* ====================================================== generation stream
\* maximum number of lines in one response body
MaxLines == 3
\* reader.read() returns at most MaxChunk bytes, or all that is left
MaxChunk == 3

MAX_MESSAGES_PER_AGENT == 100

NL == "\n"
DataPrefix == <<"d", "a", "t", "a", ":", " ">>
Whitespace == {" ", "\r", "\t"}
Deltas == {"a", "b"}

\* what the server can write as one line.  JSON texts are abbreviated to
\* three characters: {m} metadata, {x} context, {a} and {b} content with that
\* delta, {d} done, {e} error; "garbage" is a data line cut inside its JSON,
\* "comment" a line without the data prefix.
Items ==
  [type : {"metadata", "context", "done", "error", "garbage", "comment"},
   delta : {Null}]
  \cup [type : {"content"}, delta : Deltas]

\* the text of one line, without its newline
LineOf(it) ==
  CASE it.type = "metadata" -> DataPrefix \o <<"{", "m", "}">>
    [] it.type = "context"  -> DataPrefix \o <<"{", "x", "}">>
    [] it.type = "content"  -> DataPrefix \o <<"{", it.delta, "}">>
    [] it.type = "done"     -> DataPrefix \o <<"{", "d", "}">>
    [] it.type = "error"    -> DataPrefix \o <<"{", "e", "}">>
    [] it.type = "garbage"  -> DataPrefix \o <<"{", "a">>
    [] OTHER                -> <<":", "k">>

RECURSIVE BodyOf(_)
\* the response body: every line followed by a newline
BodyOf(items) ==
  IF items = <<>> THEN <<>>
  ELSE LineOf(Head(items)) \o <<NL>> \o BodyOf(Tail(items))

\* ------------------------------------------------------ string helpers
RECURSIVE SplitLines(_)
\* String.prototype.split('\n')
SplitLines(str) ==
  IF str = <<>> THEN << <<>> >>
  ELSE LET r == SplitLines(Tail(str))
       IN IF Head(str) = NL THEN << <<>> >> \o r
          ELSE << <<Head(str)>> \o Head(r) >> \o Tail(r)

Front(q) == SubSeq(q, 1, Len(q) - 1)
Last(q) == q[Len(q)]

\* !line.trim()
TrimIsEmpty(line) == \A i \in DOMAIN line : line[i] \in Whitespace

\* line.startsWith('data: ')
StartsWithData(line) ==
  /\ Len(line) >= Len(DataPrefix)
  /\ SubSeq(line, 1, Len(DataPrefix)) = DataPrefix

\* line.slice(6)
Slice6(line) == SubSeq(line, 7, Len(line))

Invalid == [type |-> "invalid", delta |-> Null]

\* JSON.parse of an abbreviated JSON text; Invalid when it throws
JSONParse(text) ==
  IF Len(text) = 3 /\ text[1] = "{" /\ text[3] = "}"
    THEN CASE text[2] = "m" -> [type |-> "metadata", delta |-> Null]
           [] text[2] = "x" -> [type |-> "context", delta |-> Null]
           [] text[2] = "d" -> [type |-> "done", delta |-> Null]
           [] text[2] = "e" -> [type |-> "error", delta |-> Null]
           [] text[2] \in Deltas -> [type |-> "content", delta |-> text[2]]
           [] OTHER -> Invalid
    ELSE Invalid

\* ---------------------------------------------------------- chat store
UserId == "u1"
AssistantId == "a1"
MsgStreamError == "stream failed"

Message(id, role, content) ==
  [id |-> id, role |-> role, content |-> content, context |-> FALSE,
   executionTimeMs |-> FALSE]

\* the store as one record, threaded through the callbacks of one chunk
Store(m, a, x, e, st, d) ==
  [messages |-> m, accumulatedContent |-> a, isExecuting |-> x,
   storeError |-> e, storage |-> st, dispatched |-> d]

CurrentStore ==
  Store(messages, accumulatedContent, isExecuting, storeError, storage, dispatched)

\* state.messages.map(msg => msg.id === assistantMessageId ? f(msg) : msg)
MapAssistant(ms, F(_)) ==
  [i \in DOMAIN ms |-> IF ms[i].id = AssistantId THEN F(ms[i]) ELSE ms[i]]

\* mutant: the oldest messages are kept
trimMessages_KeepOldest(ms) ==
  IF Len(ms) <= MAX_MESSAGES_PER_AGENT THEN ms
  ELSE SubSeq(ms, 1, MAX_MESSAGES_PER_AGENT)

\* trimMessages
trimMessages(ms) ==
  IF Len(ms) <= MAX_MESSAGES_PER_AGENT THEN ms
  ELSE SubSeq(ms, Len(ms) - MAX_MESSAGES_PER_AGENT + 1, Len(ms))

RECURSIVE TrimLeft(_)
TrimLeft(str) ==
  IF str # <<>> /\ Head(str) \in Whitespace THEN TrimLeft(Tail(str)) ELSE str

RECURSIVE TrimRight(_)
TrimRight(str) ==
  IF str # <<>> /\ Last(str) \in Whitespace THEN TrimRight(Front(str)) ELSE str

\* sanitizeInput on text without markup: what is left is trim()
sanitizeInput(str) == TrimRight(TrimLeft(str))

\* sanitizeMessageForStorage
sanitizeMessageForStorage(m) == [m EXCEPT !.content = sanitizeInput(m.content)]

\* saveHistory -> safeSetItem: the envelope written under the agent's key
\* (the entry is far below MAX_STORAGE_SIZE, so nothing is evicted)
saveHistory(st) ==
  IF st.messages # <<>>
    THEN [st EXCEPT !.storage =
            [version |-> "1.0",
             data |-> trimMessages([i \in DOMAIN st.messages |->
                                      sanitizeMessageForStorage(st.messages[i])])]]
    ELSE st

Log(st, cb, arg) ==
  [st EXCEPT !.dispatched = Append(st.dispatched, [cb |-> cb, arg |-> arg])]

\* sendMessageStreaming: onMetadata
OnMetadata(st) == Log(st, "onMetadata", Null)

\* sendMessageStreaming: onContext
OnContext(st) ==
  LET F(m) == [m EXCEPT !.context = TRUE]
  IN [Log(st, "onContext", Null) EXCEPT !.messages = MapAssistant(st.messages, F)]

\* mutant: the delta replaces the accumulated content
OnContent_Assign(st, delta) ==
  LET F(m) == [m EXCEPT !.content = <<delta>>]
  IN [Log(st, "onContent", delta) EXCEPT
        !.accumulatedContent = <<delta>>,
        !.messages = MapAssistant(st.messages, F)]

\* sendMessageStreaming: onContent
OnContent(st, delta) ==
  LET acc == st.accumulatedContent \o <<delta>>
      F(m) == [m EXCEPT !.content = acc]
  IN [Log(st, "onContent", delta) EXCEPT
        !.accumulatedContent = acc,
        !.messages = MapAssistant(st.messages, F)]

\* sendMessageStreaming: onDone
OnDone(st) ==
  LET F(m) == [m EXCEPT !.executionTimeMs = TRUE]
  IN saveHistory([Log(st, "onDone", Null) EXCEPT
                    !.messages = trimMessages(MapAssistant(st.messages, F)),
                    !.isExecuting = FALSE])

\* sendMessageStreaming: onError
OnError(st, msg) ==
  LET F(m) == [m EXCEPT !.role = "system", !.content = <<"Error: ", msg>>]
  IN [Log(st, "onError", msg) EXCEPT
        !.storeError = <<"Streaming error: ", msg>>,
        !.isExecuting = FALSE,
        !.messages = MapAssistant(st.messages, F)]

\* sendMessageStreaming: the catch block around executeStream
CatchExecute(st, msg) ==
  LET F(m) == [m EXCEPT !.role = "system", !.content = <<"Error: ", msg>>]
  IN [st EXCEPT
        !.storeError = <<msg>>,
        !.isExecuting = FALSE,
        !.messages = MapAssistant(st.messages, F)]

\* ------------------------------------------------------- executeStream
\* the switch on eventData.type
Dispatch(st, ev) ==
  CASE ev.type = "metadata" -> OnMetadata(st)
    [] ev.type = "context"  -> OnContext(st)
    [] ev.type = "content"  -> OnContent(st, ev.delta)
    [] ev.type = "done"     -> OnDone(st)
    [] ev.type = "error"    -> OnError(st, "e")
    [] OTHER                -> st

\* mutant: a data line that does not parse is reported as a stream error
ProcessLine_ReportInvalid(st, line) ==
  IF TrimIsEmpty(line) \/ ~StartsWithData(line) THEN st
  ELSE IF JSONParse(Slice6(line)) = Invalid THEN OnError(st, "e")
  ELSE Dispatch(st, JSONParse(Slice6(line)))

\* the body of the for loop over the complete lines
ProcessLine(st, line) ==
  IF TrimIsEmpty(line) \/ ~StartsWithData(line) THEN st
  ELSE Dispatch(st, JSONParse(Slice6(line)))

RECURSIVE ProcessLines(_, _)
ProcessLines(st, lines) ==
  IF lines = <<>> THEN st
  ELSE ProcessLines(ProcessLine(st, Head(lines)), Tail(lines))

\* mutant: the incomplete last line is thrown away
KeepIncomplete_Drop(lines) == <<>>

\* buffer = lines.pop() || ''
KeepIncomplete(lines) == Last(lines)

\* one turn of the read loop for a chunk: the store after the callbacks,
\* and the new buffer
ProcessChunk(st, buf, chunk) ==
  LET lines == SplitLines(buf \o chunk)
  IN [store |-> ProcessLines(st, Front(lines)), buffer |-> KeepIncomplete(lines)]

SetStore(st) ==
  /\ messages' = st.messages
  /\ accumulatedContent' = st.accumulatedContent
  /\ isExecuting' = st.isExecuting
  /\ storeError' = st.storeError
  /\ storage' = st.storage
  /\ dispatched' = st.dispatched

\* fetch resolved with response.ok and a body
FetchOk ==
  /\ streamPc = "fetching"
  /\ streamPc' = "reading"
  /\ UNCHANGED <<sent, rest, buffer, dispatched, messages, accumulatedContent,
                 isExecuting, storeError, storage>>

\* fetch rejected, or !response.ok: the catch block reports and rethrows
FetchFail ==
  /\ streamPc = "fetching"
  /\ streamPc' = "threw"
  /\ SetStore(CatchExecute(OnError(CurrentStore, MsgStreamError), MsgStreamError))
  /\ UNCHANGED <<sent, rest, buffer>>

\* the sizes of the chunk the next reader.read() can return
ChunkSizes ==
  IF rest = <<>> THEN {}
  ELSE {k \in 1..Len(rest) : k <= MaxChunk} \cup {Len(rest)}

\* reader.read() returned a chunk of k bytes
ReadChunk ==
  /\ streamPc = "reading"
  /\ \E k \in ChunkSizes :
       LET out == ProcessChunk(CurrentStore, buffer, SubSeq(rest, 1, k))
       IN /\ rest' = SubSeq(rest, k + 1, Len(rest))
          /\ buffer' = out.buffer
          /\ SetStore(out.store)
  /\ UNCHANGED <<sent, streamPc>>

\* reader.read() returned done: the loop breaks and executeStream returns
ReadDone ==
  /\ streamPc = "reading"
  /\ streamPc' = "returned"
  /\ UNCHANGED <<sent, rest, buffer, dispatched, messages, accumulatedContent,
                 isExecuting, storeError, storage>>

\* reader.read() rejected: the catch block reports and rethrows
ReadFail ==
  /\ streamPc = "reading"
  /\ streamPc' = "threw"
  /\ SetStore(CatchExecute(OnError(CurrentStore, MsgStreamError), MsgStreamError))
  /\ UNCHANGED <<sent, rest, buffer>>

\* sendMessageStreaming has appended the user message and the placeholder
\* and has called executeStream
InitialMessages ==
  <<Message(UserId, "user", <<"q">>), Message(AssistantId, "assistant", <<>>)>>

InitialStore == Store(InitialMessages, <<>>, TRUE, Null, Null, <<>>)

StreamInit ==
  /\ sent \in UNION {[1..n -> Items] : n \in 0..MaxLines}
  /\ rest = BodyOf(sent)
  /\ buffer = <<>>
  /\ dispatched = <<>>
  /\ streamPc = "fetching"
  /\ messages = InitialMessages
  /\ accumulatedContent = <<>>
  /\ isExecuting = TRUE
  /\ storeError = Null
  /\ storage = Null

StreamIdle ==
  /\ sent = <<>>
  /\ rest = <<>>
  /\ buffer = <<>>
  /\ dispatched = <<>>
  /\ streamPc = "idle"
  /\ messages = <<>>
  /\ accumulatedContent = <<>>
  /\ isExecuting = FALSE
  /\ storeError = Null
  /\ storage = Null

\* no job session in the stream specification
JobIdle ==
  /\ job = JobRecord("pending", 0, Null, Null)
  /\ useStreaming = FALSE
  /\ cancelled = FALSE
  /\ fallbackActive = FALSE
  /\ completed = FALSE
  /\ channel = <<>>
  /\ emitted = 0
  /\ es = "none"
  /\ streamPromise = NoPromise
  /\ sseTimer = "none"
  /\ attempts = 0
  /\ pollPc = "none"
  /\ pollPromise = NoPromise
  /\ calls = <<>>

\* =========================================================== rate limiter
\* new RateLimiter(10, 60000) of the chat store
maxRequests == 10
timeWindow == 60000
\* number of times the clock moves forward between calls
MaxAdvance == 2

Agents == {"A", "B"}

VARIABLES
  now,         \* Date.now(), in ms since the limiter was constructed
  advances,    \* how often the clock has moved
  timestamps,  \* RateLimiter: this.timestamps
  admitted,    \* the times of all calls that returned true, in order
  lastDenied,  \* the time of the last call that returned false, or Never
  admittedBy,  \* the handlers and agents of the calls that returned true
  rejected     \* why the last send returned early, or Null if it did not

limiterVars == <<now, advances, timestamps, admitted, lastDenied, admittedBy,
                 rejected>>

Never == 0 - 1

\* mutant: a timestamp exactly one window old is kept
InWindow_Inclusive(tss, t) == SelectSeq(tss, LAMBDA ts : t - ts <= timeWindow)

\* this.timestamps.filter(ts => now - ts < this.timeWindow)
InWindow(tss, t) == SelectSeq(tss, LAMBDA ts : t - ts < timeWindow)

\* mutant: one request more than maxRequests passes
Admits_OffByOne(tss) == ~(Len(tss) > maxRequests)

\* the negation of this.timestamps.length >= this.maxRequests
Admits(tss) == ~(Len(tss) >= maxRequests)

\* mutant: a denied call is recorded as well
AfterDenied_Counted(tss, t) == Append(tss, t)

\* return false: nothing is pushed
AfterDenied(tss, t) == tss

\* RateLimiter.canMakeRequest at time t: the value returned and the
\* timestamps it leaves
canMakeRequest(tss, t) ==
  LET kept == InWindow(tss, t)
  IN IF Admits(kept)
       THEN [ok |-> TRUE, timestamps |-> Append(kept, t)]
       ELSE [ok |-> FALSE, timestamps |-> AfterDenied(kept, t)]

\* the rate limiting check of a send handler, called for a valid message
\* with agent a selected
RateLimitCheck(handler, a) ==
  LET r == canMakeRequest(timestamps, now)
  IN /\ timestamps' = r.timestamps
     /\ IF r.ok
          THEN /\ admitted' = Append(admitted, now)
               /\ admittedBy' = admittedBy \cup {<<handler, a>>}
               /\ rejected' = Null
               /\ UNCHANGED lastDenied
          ELSE /\ lastDenied' = now
               /\ rejected' = "rateLimited"
               /\ UNCHANGED <<admitted, admittedBy>>
     /\ UNCHANGED <<now, advances>>

\* sendMessage with the streaming toggle off, up to its admission
SendMessage == \E a \in Agents : RateLimitCheck("sendMessage", a)

\* sendMessageStreaming, up to its admission
SendMessageStreaming == \E a \in Agents : RateLimitCheck("sendMessageStreaming", a)

\* time passes: a millisecond, or a millisecond less than the window
Advance ==
  /\ advances < MaxAdvance
  /\ advances' = advances + 1
  /\ \E d \in {1, timeWindow - 1} : now' = now + d
  /\ UNCHANGED <<timestamps, admitted, lastDenied, admittedBy, rejected>>

\* the module has been loaded: const rateLimiter = new RateLimiter(10, 60000)
LimiterInit ==
  /\ now = 0
  /\ advances = 0
  /\ timestamps = <<>>
  /\ admitted = <<>>
  /\ lastDenied = Never
  /\ admittedBy = {}
  /\ rejected = Null

\* ========================================================= history store
STORAGE_KEY_PREFIX == "chat_history_"
MiB == 1024 * 1024
MAX_STORAGE_SIZE == 4 * MiB
\* what the browser lets one origin store ("typically 5-10MB")
BrowserQuota == 5 * MiB
\* sends started in one run
MaxSends == 1

\* a run of MiB characters inside a message
BigText == "M"

VARIABLES
  localStorage,  \* window.localStorage: key -> stored item
  currentAgent,  \* chat store: currentAgent (its agent_id, or Null)
  inFlight,      \* the agent of the agentsApi.execute request not yet answered
  sends,         \* sends started so far
  lastSave,      \* the last call of safeSetItem: its key, what it returned,
                 \* how often it called setItem and how often that threw
  lastLoad,      \* the last call of safeGetItem: its key, the kind of item it
                 \* read and whether it returned data
  assistantMessageId  \* sendMessageStreaming: the assistantMessageId of the
                      \* call whose stream has not ended, as a set of ids

historyVars == <<localStorage, currentAgent, inFlight, sends, lastSave, lastLoad,
                 assistantMessageId>>

\* the variables of executeStream, untouched by the history store
streamIoVars == <<sent, rest, buffer, dispatched, streamPc, accumulatedContent,
                  storage>>

HistoryKey(a) == <<STORAGE_KEY_PREFIX, a>>
AuthKey == <<"auth_token">>
\* the agents with a history in localStorage: those of the agent selector
\* and one that is not selected in this run
StoredAgents == Agents \cup {"C"}

HistoryKeys == {HistoryKey(a) : a \in StoredAgents}
Keys == HistoryKeys \cup {AuthKey}

\* key.length
KeyLength(k) == IF k = AuthKey THEN 10 ELSE 14

\* a ChatMessage of the store
ChatMessage(id, role, content, ts) ==
  [id |-> id, role |-> role, content |-> content, timestamp |-> ts]

RECURSIVE ContentLength(_)
\* content.length
ContentLength(content) ==
  IF content = <<>> THEN 0
  ELSE (IF Head(content) = BigText THEN MiB ELSE 1) + ContentLength(Tail(content))

RECURSIVE DataLengthBetween(_, _, _)
\* the length of the JSON text of the messages data[lo..hi], 100 characters
\* of punctuation, field names, id, role and timestamp for each
DataLengthBetween(data, lo, hi) ==
  IF lo > hi THEN 0
  ELSE IF lo = hi THEN 100 + ContentLength(data[lo].content)
  ELSE LET mid == (lo + hi) \div 2
       IN DataLengthBetween(data, lo, mid) + DataLengthBetween(data, mid + 1, hi)

DataLength(data) == DataLengthBetween(data, 1, Len(data))

\* the length of the text of an item: JSON.stringify(storageData).length for
\* a JSON object, 8 for the other text
TextLength(kind, data) ==
  CASE kind \in {"absent", "empty"} -> 0
    [] kind = "text" -> 8
    [] OTHER -> 50 + DataLength(data)

\* a stored item.  kind: "absent" (getItem returns null), "empty" (the empty
\* string), "text" (not JSON), "nodata" (a JSON object without data field),
\* "envelope" (a JSON object with data); wellFormed: data is an array of
\* objects that have id, role, content and timestamp; length: value.length
Item(kind, version, ts, data, wf) ==
  [kind |-> kind, version |-> version, timestamp |-> ts, data |-> data,
   wellFormed |-> wf, length |-> TextLength(kind, data)]

AbsentItem == Item("absent", Null, 0, <<>>, FALSE)
EmptyItem == Item("empty", Null, 0, <<>>, FALSE)
TextItem == Item("text", Null, 0, <<>>, FALSE)

\* storageData of safeSetItem
Envelope(ts, data) == Item("envelope", "1.0", ts, data, TRUE)

\* serialized.length, value.length
JSONLength(item) == item.length

RECURSIVE SumOver(_, _)
SumOver(ks, ls) ==
  IF ks = {} THEN 0
  ELSE LET k == CHOOSE x \in ks : TRUE
       IN (IF ls[k].kind \in {"absent", "empty"} THEN 0
           ELSE KeyLength(k) + JSONLength(ls[k]))
          + SumOver(ks \ {k}, ls)

\* getStorageSize
getStorageSize(ls) == SumOver(Keys, ls)

\* localStorage.setItem throws QuotaExceededError
SetItemThrows(ls, key, item) ==
  getStorageSize([ls EXCEPT ![key] = item]) > BrowserQuota

\* the orders in which localStorage.key(i) can enumerate the history keys
KeyOrders ==
  {o \in [1..Cardinality(HistoryKeys) -> HistoryKeys] :
     \A i, j \in DOMAIN o : i # j => o[i] # o[j]}

\* the time 0 of Date.now(): now counts from the construction of the rate
\* limiter, and every history in localStorage was saved after the epoch
Epoch == 0 - 3

\* mutant: the newest history sorts first
EvictionTimestamp_NewestFirst(item) ==
  IF item.kind \in {"envelope", "nodata"} THEN 0 - item.timestamp ELSE Epoch

\* clearOldestData: data.timestamp || 0, and 0 when the item does not parse
EvictionTimestamp(item) ==
  IF item.kind \in {"envelope", "nodata"} THEN item.timestamp ELSE Epoch

RECURSIVE SortByTimestamp(_, _)
\* items.sort((a, b) => a.timestamp - b.timestamp), a stable sort
SortByTimestamp(ks, ls) ==
  IF ks = <<>> THEN <<>>
  ELSE LET k == Last(ks)
           sorted == SortByTimestamp(Front(ks), ls)
           Before(x) == EvictionTimestamp(ls[x]) <= EvictionTimestamp(ls[k])
           After(x) == ~Before(x)
       IN SelectSeq(sorted, Before) \o <<k>> \o SelectSeq(sorted, After)

\* Math.ceil(items.length * 0.25)
ToRemove(n) == (n + 3) \div 4

\* clearOldestData, the keys enumerated in the given order
clearOldestData(ls, order) ==
  LET items == SelectSeq(order, LAMBDA k : ls[k].kind # "absent")
      sorted == SortByTimestamp(items, ls)
  IN [k \in Keys |->
        IF \E i \in 1..ToRemove(Len(items)) : sorted[i] = k
          THEN AbsentItem ELSE ls[k]]

\* what safeSetItem returns, the storage it leaves, its calls of setItem
\* and how many of them threw QuotaExceededError
SetResult(ok, ls, writes, threw) ==
  [ok |-> ok, ls |-> ls, writes |-> writes, threw |-> threw]

\* mutant: the catch block evicts and returns false
RetryAfterQuotaError_GiveUp(ls, key, item, order) ==
  SetResult(FALSE, clearOldestData(ls, order), 1, 1)

\* safeSetItem, the catch block for a QuotaExceededError of setItem
RetryAfterQuotaError(ls, key, item, order) ==
  LET ls2 == clearOldestData(ls, order)
  IN IF ~SetItemThrows(ls2, key, item)
       THEN SetResult(TRUE, [ls2 EXCEPT ![key] = item], 2, 1)
       ELSE SetResult(FALSE, ls2, 2, 2)

\* safeSetItem(key, value) at time t
safeSetItem(ls, key, value, t, order) ==
  LET item == Envelope(t, value)
      size == JSONLength(item)
  IN IF size > MAX_STORAGE_SIZE THEN SetResult(FALSE, ls, 0, 0)
     ELSE LET ls1 == IF getStorageSize(ls) + size > MAX_STORAGE_SIZE
                       THEN clearOldestData(ls, order) ELSE ls
          IN IF ~SetItemThrows(ls1, key, item)
               THEN SetResult(TRUE, [ls1 EXCEPT ![key] = item], 1, 0)
               ELSE RetryAfterQuotaError(ls1, key, item, order)

\* mutant: the version of the envelope is not looked at
VersionOk_Any(item) == TRUE

\* the negation of parsed.version !== '1.0'
VersionOk(item) == item.version = "1.0"

\* isChatMessageArray(parsed.data)
isChatMessageArray(item) == item.wellFormed

\* safeGetItem(key, isChatMessageArray): the data returned (found FALSE for
\* null) and the storage it leaves
safeGetItem(ls, key) ==
  LET item == ls[key]
      Discard == [found |-> FALSE, data |-> <<>>, ls |-> [ls EXCEPT ![key] = AbsentItem]]
  IN CASE item.kind \in {"absent", "empty"} ->
            [found |-> FALSE, data |-> <<>>, ls |-> ls]
       [] item.kind \in {"text", "nodata"} -> Discard
       [] ~VersionOk(item) -> Discard
       [] ~isChatMessageArray(item) -> Discard
       [] OTHER -> [found |-> TRUE, data |-> item.data, ls |-> ls]

\* loadHistory(a), ms the messages of the store when it is called
loadHistory(ls, ms, a) ==
  LET got == safeGetItem(ls, HistoryKey(a))
  IN [messages |-> IF got.found
                     THEN trimMessages([i \in DOMAIN got.data |->
                                          sanitizeMessageForStorage(got.data[i])])
                     ELSE ms,
      ls |-> got.ls,
      found |-> got.found]

\* chat store: setAgent
SetAgent(a) ==
  LET loaded == loadHistory(localStorage, <<>>, a)
  IN /\ currentAgent' = a
     /\ messages' = loaded.messages
     /\ localStorage' = loaded.ls
     /\ lastLoad' = [key |-> HistoryKey(a), kind |-> localStorage[HistoryKey(a)].kind,
                     found |-> loaded.found]
     /\ UNCHANGED <<inFlight, sends, lastSave, isExecuting, storeError,
                    assistantMessageId>>

\* chat store: clearMessages
ClearMessages ==
  /\ messages' = <<>>
  /\ localStorage' = IF currentAgent # Null
                       THEN [localStorage EXCEPT ![HistoryKey(currentAgent)] = AbsentItem]
                       ELSE localStorage
  /\ UNCHANGED <<currentAgent, inFlight, sends, lastSave, lastLoad, isExecuting,
                 storeError, assistantMessageId>>

NoSave == [key |-> AuthKey, ok |-> FALSE, writes |-> 0, threw |-> 0]
NoLoad == [key |-> AuthKey, kind |-> "absent", found |-> FALSE]

\* chat store: saveHistory, as the tail of a handler that has left ms in
\* messages; localStorage.key(i) enumerates the keys in any order
SaveMessages(ms) ==
  IF currentAgent # Null /\ ms # <<>>
    THEN LET key == HistoryKey(currentAgent)
             value == trimMessages([i \in DOMAIN ms |-> sanitizeMessageForStorage(ms[i])])
         IN \E out \in {safeSetItem(localStorage, key, value, now, order) :
                          order \in KeyOrders} :
              /\ localStorage' = out.ls
              /\ lastSave' = [key |-> key, ok |-> out.ok, writes |-> out.writes,
                               threw |-> out.threw]
    ELSE UNCHANGED <<localStorage, lastSave>>

\* chat store: saveHistory called on its own
SaveHistory ==
  /\ currentAgent # Null
  /\ SaveMessages(messages)
  /\ UNCHANGED <<messages, currentAgent, inFlight, sends, lastLoad, isExecuting,
                 storeError, assistantMessageId>>

\* generateSecureId: an id no message of the conversation has
NewId(ms) == IF ms = <<>> THEN 1 ELSE Last(ms).id + 1

\* what agentsApi.execute can answer: short and padded with spaces, or very
\* long
Answers == {<<" ", "a", " ">>, <<BigText>>, <<BigText, BigText, BigText>>}

\* sendMessage with the streaming toggle off, admitted by the rate limiter:
\* the user message is added and the request leaves; one request at a time
UserTurn ==
  /\ currentAgent # Null
  /\ inFlight = Null
  /\ sends < MaxSends
  /\ sends' = sends + 1
  /\ inFlight' = currentAgent
  /\ messages' = Append(messages, ChatMessage(NewId(messages), "user", <<"q">>, now))
  /\ isExecuting' = TRUE
  /\ storeError' = Null
  /\ UNCHANGED <<localStorage, currentAgent, lastSave, lastLoad, assistantMessageId>>

\* sendMessage: agentsApi.execute resolved
AssistantTurn ==
  /\ inFlight # Null
  /\ assistantMessageId = {}
  /\ inFlight' = Null
  /\ \E c \in Answers :
       LET ms == trimMessages(Append(messages,
                                     ChatMessage(NewId(messages), "assistant", c, now)))
       IN /\ messages' = ms
          /\ SaveMessages(ms)
  /\ isExecuting' = FALSE
  /\ UNCHANGED <<currentAgent, sends, lastLoad, storeError, assistantMessageId>>

\* sendMessage: agentsApi.execute rejected
ErrorTurn ==
  /\ inFlight # Null
  /\ assistantMessageId = {}
  /\ inFlight' = Null
  /\ messages' = Append(messages,
                        ChatMessage(NewId(messages), "system",
                                    <<"Error: ", MsgReadFailed>>, now))
  /\ isExecuting' = FALSE
  /\ storeError' = MsgReadFailed
  /\ UNCHANGED <<localStorage, currentAgent, sends, lastSave, lastLoad,
                 assistantMessageId>>

\* a conversation of n short turns, written before this run
Turns(n) ==
  [i \in 1..n |->
     ChatMessage(i, IF i % 2 = 1 THEN "user" ELSE "assistant", <<"a">>, 0 - 1)]

\* an answer of three MiB
BigTurn == <<ChatMessage(1, "assistant", <<BigText, BigText, BigText>>, 0 - 1)>>

\* what a history key can hold when the page is opened: histories saved by
\* earlier runs at time ts, and values this code never wrote
StoredItems(ts) ==
  { AbsentItem, EmptyItem, TextItem,
    Item("nodata", "1.0", ts, <<>>, FALSE),
    Item("envelope", "0.9", ts, Turns(1), TRUE),
    Item("envelope", "1.0", ts, Turns(1), FALSE),
    Envelope(ts, Turns(1)),
    Envelope(ts, Turns(MAX_MESSAGES_PER_AGENT)),
    Envelope(ts, BigTurn) }

\* the page has been opened: no agent selected, histories of earlier runs in
\* localStorage, agent A's older than the others (a history of 100 turns is
\* the only one stored), and all of it within what the browser stores
HistoryInit ==
  /\ \E a \in StoredItems(0 - 2),
        b \in {AbsentItem, Envelope(0 - 1, Turns(1)), Envelope(0 - 1, BigTurn)},
        c \in {AbsentItem, Envelope(0 - 1, BigTurn)} :
       /\ Len(a.data) > 1 => (b = AbsentItem /\ c = AbsentItem)
       /\ localStorage = [k \in Keys |->
                            IF k = HistoryKey("A") THEN a
                            ELSE IF k = HistoryKey("B") THEN b
                            ELSE IF k = HistoryKey("C") THEN c
                            ELSE TextItem]
  /\ getStorageSize(localStorage) <= BrowserQuota
  /\ currentAgent = Null
  /\ inFlight = Null
  /\ sends = 0
  /\ lastSave = NoSave
  /\ lastLoad = NoLoad
  /\ assistantMessageId = {}

\* no chat page in the other specifications
HistoryIdle ==
  /\ localStorage = [k \in Keys |-> AbsentItem]
  /\ currentAgent = Null
  /\ inFlight = Null
  /\ sends = 0
  /\ lastSave = NoSave
  /\ lastLoad = NoLoad
  /\ assistantMessageId = {}

\* ========================================================== send handlers
\* validateMessage: trimmed.length > 10000
MaxMessageLength == 10000

\* a run of MaxMessageLength + 1 characters in a query
LongText == "L"

\* an agent of the list whose agent_id isValidAgentId does not accept
BadAgent == "bad id"

\* what the user can type: a question, with blanks around it, only blanks,
\* nothing, too much
Queries == {<<"q">>, <<" ", "q", " ">>, <<" ">>, <<>>, <<LongText>>}

RECURSIVE QueryLength(_)
\* trimmed.length
QueryLength(q) ==
  IF q = <<>> THEN 0
  ELSE (IF Head(q) = LongText THEN MaxMessageLength + 1 ELSE 1) + QueryLength(Tail(q))

\* validateMessage
validateMessage(q) ==
  LET trimmed == TrimRight(TrimLeft(q))
      invalid == [valid |-> FALSE, sanitized |-> <<>>]
  IN IF q = <<>> THEN invalid
     ELSE IF QueryLength(trimmed) = 0 THEN invalid
     ELSE IF QueryLength(trimmed) > MaxMessageLength THEN invalid
     ELSE [valid |-> TRUE, sanitized |-> sanitizeInput(trimmed)]

\* isValidAgentId, on the agent ids of this model
isValidAgentId(id) == id \in Agents

\* what a send that returns early leaves alone
sendEffects == <<messages, isExecuting, storeError, inFlight, sends,
                 assistantMessageId>>

\* mutant: a send that returns early clears the error of the store
RejectSend_ClearsError(why) ==
  /\ rejected' = why
  /\ storeError' = Null
  /\ UNCHANGED <<now, advances, timestamps, admitted, lastDenied, admittedBy>>
  /\ UNCHANGED <<messages, isExecuting, inFlight, sends, assistantMessageId>>

\* toast.error(...); return, before the rate limiter is asked
RejectSend(why) ==
  /\ rejected' = why
  /\ UNCHANGED <<now, advances, timestamps, admitted, lastDenied, admittedBy>>
  /\ UNCHANGED sendEffects

\* an admitted send up to its await: the user message is added, for the
\* streaming handler the placeholder after it, and the request leaves
StartRequest(handler, text) ==
  LET userMessage == ChatMessage(NewId(messages), "user", text, now)
      withUser == Append(messages, userMessage)
      placeholder == ChatMessage(NewId(withUser), "assistant", <<>>, now)
  IN /\ isExecuting' = TRUE
     /\ storeError' = Null
     /\ inFlight' = currentAgent
     /\ sends' = sends + 1
     /\ IF handler = "sendMessageStreaming"
          THEN /\ messages' = Append(withUser, placeholder)
               /\ assistantMessageId' = {placeholder.id}
          ELSE /\ messages' = withUser
               /\ UNCHANGED assistantMessageId

\* a send handler called with the text q, from the call to the await or to
\* the early return; at most MaxSends requests in one run, one at a time
Send(handler, q) ==
  /\ IF currentAgent = Null THEN RejectSend("noAgent")
     ELSE IF ~isValidAgentId(currentAgent) THEN RejectSend("badAgent")
     ELSE IF ~validateMessage(q).valid THEN RejectSend("badMessage")
     ELSE /\ RateLimitCheck(handler, currentAgent)
          /\ IF canMakeRequest(timestamps, now).ok
               THEN /\ sends < MaxSends
                    /\ inFlight = Null
                    /\ StartRequest(handler, validateMessage(q).sanitized)
               ELSE UNCHANGED sendEffects
  /\ UNCHANGED <<localStorage, currentAgent, lastSave, lastLoad>>

\* sendMessage with the streaming toggle off
TrySendMessage == \E q \in Queries : Send("sendMessage", q)

\* sendMessageStreaming
TrySendMessageStreaming == \E q \in Queries : Send("sendMessageStreaming", q)

\* state.messages.map(msg => msg.id === assistantMessageId ? f(msg) : msg)
\* with the content replaced, and the role when one is given
WithPlaceholder(role, content) ==
  [i \in DOMAIN messages |->
     IF messages[i].id \in assistantMessageId
       THEN [messages[i] EXCEPT !.content = content,
                                !.role = IF role = Null THEN @ ELSE role]
       ELSE messages[i]]

\* sendMessageStreaming: the content events and the done event of the
\* stream have been handled
StreamTurn ==
  /\ assistantMessageId # {}
  /\ \E c \in Answers :
       LET ms == trimMessages(WithPlaceholder(Null, c))
       IN /\ messages' = ms
          /\ SaveMessages(ms)
  /\ isExecuting' = FALSE
  /\ inFlight' = Null
  /\ assistantMessageId' = {}
  /\ UNCHANGED <<currentAgent, sends, lastLoad, storeError>>

\* sendMessageStreaming: the error event of the stream has been handled
StreamErrorTurn ==
  /\ assistantMessageId # {}
  /\ messages' = WithPlaceholder("system", <<"Error: ", "e">>)
  /\ storeError' = MsgStreamError
  /\ isExecuting' = FALSE
  /\ inFlight' = Null
  /\ assistantMessageId' = {}
  /\ UNCHANGED <<localStorage, currentAgent, sends, lastSave, lastLoad>>

\* the chat page: just loaded with no agent selected, or used before, the
\* limiter holding maxRequests sends of this millisecond, the conversation
\* cleared, and an agent selected whose id may be unacceptable
SendInit ==
  /\ now = 0
  /\ advances = 0
  /\ lastDenied = Never
  /\ rejected = Null
  /\ \E n \in {0, maxRequests} :
       /\ timestamps = [i \in 1..n |-> 0]
       /\ admitted = timestamps
       /\ admittedBy = IF n = 0 THEN {} ELSE {<<"sendMessage", "A">>}
       /\ currentAgent \in IF n = 0 THEN {Null} ELSE {"A", BadAgent}
  /\ localStorage = [k \in Keys |-> AbsentItem]
  /\ inFlight = Null
  /\ sends = 0
  /\ lastSave = NoSave
  /\ lastLoad = NoLoad
  /\ assistantMessageId = {}

vars == <<jobVars, streamVars, limiterVars, historyVars>>

Init == JobInit /\ StreamIdle /\ LimiterInit /\ HistoryIdle

Next ==
  \/ JobStart /\ UNCHANGED <<streamVars, limiterVars, historyVars>>
  \/ JobProgress /\ UNCHANGED <<streamVars, limiterVars, historyVars>>
  \/ JobComplete /\ UNCHANGED <<streamVars, limiterVars, historyVars>>
  \/ JobFail /\ UNCHANGED <<streamVars, limiterVars, historyVars>>
  \/ ServerPush /\ UNCHANGED <<streamVars, limiterVars, historyVars>>
  \/ SseMessage /\ UNCHANGED <<streamVars, limiterVars, historyVars>>
  \/ SseError /\ UNCHANGED <<streamVars, limiterVars, historyVars>>
  \/ SseTimeout /\ UNCHANGED <<streamVars, limiterVars, historyVars>>
  \/ PollResponse /\ UNCHANGED <<streamVars, limiterVars, historyVars>>
  \/ PollTimer /\ UNCHANGED <<streamVars, limiterVars, historyVars>>
  \/ Cancel /\ UNCHANGED <<streamVars, limiterVars, historyVars>>

Spec == Init /\ [][Next]_vars

otherVars == <<streamVars, limiterVars, historyVars>>

\* the same session where what the browser schedules does happen: a status
\* read is answered or fails (axios timeout of 60 s), the pollInterval timer
\* fires, and the 5 minute timer of the push phase fires
SpecFair ==
  /\ Init /\ [][Next]_vars
  /\ WF_vars(PollResponse /\ UNCHANGED otherVars)
  /\ WF_vars(PollTimer /\ UNCHANGED otherVars)
  /\ WF_vars(SseTimeout /\ UNCHANGED otherVars)

InitStream == JobIdle /\ StreamInit /\ LimiterInit /\ HistoryIdle

NextStream ==
  \/ FetchOk /\ UNCHANGED <<jobVars, limiterVars, historyVars>>
  \/ FetchFail /\ UNCHANGED <<jobVars, limiterVars, historyVars>>
  \/ ReadChunk /\ UNCHANGED <<jobVars, limiterVars, historyVars>>
  \/ ReadDone /\ UNCHANGED <<jobVars, limiterVars, historyVars>>
  \/ ReadFail /\ UNCHANGED <<jobVars, limiterVars, historyVars>>

SpecStream == InitStream /\ [][NextStream]_vars

InitLimiter == JobIdle /\ StreamIdle /\ LimiterInit /\ HistoryIdle

NextLimiter ==
  \/ SendMessage /\ UNCHANGED <<jobVars, streamVars, historyVars>>
  \/ SendMessageStreaming /\ UNCHANGED <<jobVars, streamVars, historyVars>>
  \/ Advance /\ UNCHANGED <<jobVars, streamVars, historyVars>>

SpecLimiter == InitLimiter /\ [][NextLimiter]_vars

InitHistory == JobIdle /\ StreamIdle /\ LimiterInit /\ HistoryInit

NextHistory ==
  \/ (\E a \in Agents : SetAgent(a)) /\ UNCHANGED <<jobVars, streamIoVars, limiterVars>>
  \/ ClearMessages /\ UNCHANGED <<jobVars, streamIoVars, limiterVars>>
  \/ SaveHistory /\ UNCHANGED <<jobVars, streamIoVars, limiterVars>>
  \/ UserTurn /\ UNCHANGED <<jobVars, streamIoVars, limiterVars>>
  \/ AssistantTurn /\ UNCHANGED <<jobVars, streamIoVars, limiterVars>>
  \/ ErrorTurn /\ UNCHANGED <<jobVars, streamIoVars, limiterVars>>

SpecHistory == InitHistory /\ [][NextHistory]_vars

\* the user has read "Too many requests. Please wait a moment." and waits
WaitAfterDenial ==
  /\ rejected = "rateLimited"
  /\ Advance

InitSend == JobIdle /\ StreamIdle /\ SendInit

NextSend ==
  \/ TrySendMessage /\ UNCHANGED <<jobVars, streamIoVars>>
  \/ TrySendMessageStreaming /\ UNCHANGED <<jobVars, streamIoVars>>
  \/ (\E a \in Agents : SetAgent(a)) /\ UNCHANGED <<jobVars, streamIoVars, limiterVars>>
  \/ AssistantTurn /\ UNCHANGED <<jobVars, streamIoVars, limiterVars>>
  \/ ErrorTurn /\ UNCHANGED <<jobVars, streamIoVars, limiterVars>>
  \/ StreamTurn /\ UNCHANGED <<jobVars, streamIoVars, limiterVars>>
  \/ StreamErrorTurn /\ UNCHANGED <<jobVars, streamIoVars, limiterVars>>
  \/ WaitAfterDenial /\ UNCHANGED <<jobVars, streamVars, historyVars>>

SpecSend == InitSend /\ [][NextSend]_vars


\* ================================================================ claims
Count(cb) == Cardinality({i \in DOMAIN calls : calls[i].cb = cb})

IsTerminalCall(x) == x.cb \in {"onComplete", "onError"}

TerminalCount == Cardinality({i \in DOMAIN calls : IsTerminalCall(calls[i])})

Settled(p) == p.state \in {"resolved", "rejected"}

\* C1: once cancel() has been called, no step of the session invokes any of
\* the caller's callbacks: the callback log never changes while cancelled.
C1_NoCallbackAfterCancel == [][cancelled => calls' = calls]_vars

\* a poll reply that ended the loop arrived after cancel() and was dropped
C1_Witness ==
  /\ cancelled
  /\ pollPromise.state = "rejected"
  /\ Count("onError") = 0

\* C2: in one session onComplete is invoked at most once and onError is
\* invoked at most once.
C2_TerminalCallbacksAtMostOnce ==
  /\ Count("onComplete") <= 1
  /\ Count("onError") <= 1

\* C3: the caller never receives both onComplete and onError.
C3_NotBothCompleteAndError ==
  ~(Count("onComplete") > 0 /\ Count("onError") > 0)

\* a terminal push frame was followed by the fallback, and the poll loop
\* delivered its outcome
C3_Witness ==
  /\ completed
  /\ fallbackActive
  /\ Settled(pollPromise)
  /\ TerminalCount > 0

\* C4: after a push-channel error before any terminal event, in a session
\* that is not cancelled and whose poll loop read a terminal job record,
\* exactly one terminal callback has been delivered.
C4_FallbackDeliversExactlyOne ==
  ( /\ streamPromise.state = "rejected"
    /\ streamPromise.value \in {MsgConnection, MsgParse, MsgServerError}
    /\ fallbackActive
    /\ ~cancelled
    /\ Settled(pollPromise)
    /\ pollPromise.value \in Results \cup Errors )
  => TerminalCount = 1

\* C5: every onError the caller receives comes from the poll loop, and in a
\* streaming session only once the fallback has started.
C5_PushErrorsNeverReachCaller ==
  /\ \A i \in DOMAIN calls : calls[i].cb = "onError" => calls[i].via = "poll"
  /\ (useStreaming /\ Count("onError") > 0) => fallbackActive

\* the push channel failed in a live session and the caller heard nothing
C5_Witness ==
  /\ ~cancelled
  /\ streamPromise = Rejected(MsgConnection)
  /\ fallbackActive
  /\ Count("onError") = 0

\* C6 as stated: once the job has completed with result R and the session,
\* not cancelled, has ended, onComplete has fired exactly once with R.
C6_CompletedJobFiresOnComplete ==
  ( /\ job.status = "completed"
    /\ job.result # Null
    /\ ~cancelled
    /\ (streamPromise.state = "resolved" \/ Settled(pollPromise)) )
  => /\ Count("onComplete") = 1
     /\ \A i \in DOMAIN calls : calls[i].cb = "onComplete" => calls[i].arg = job.result

\* C6 amended: when a session that is not cancelled observes the completed
\* record (push frame or poll reply), onComplete has fired exactly once,
\* with the job's result; onComplete never fires more than once.
C6_ObservedCompletionFiresOnce ==
  /\ Count("onComplete") <= 1
  /\ \A i \in DOMAIN calls :
       calls[i].cb = "onComplete" =>
         job.status = "completed" /\ calls[i].arg = job.result
  /\ (~cancelled /\ (streamPromise.state = "resolved" \/ pollPromise.state = "resolved"))
       => Count("onComplete") = 1

\* completion observed by polling after a fallback, progress reported before
C6_Witness ==
  /\ ~cancelled
  /\ fallbackActive
  /\ pollPromise.state = "resolved"
  /\ Count("onProgress") >= 2
  /\ Count("onComplete") = 1

\* C7: when a session that is not cancelled has seen the failed record with
\* error E (as a push frame or as a poll reply) and has ended, the caller's
\* onError has received E.
C7_FailureAlwaysSurfaces ==
  ( /\ ~cancelled
    /\ Settled(pollPromise)
    /\ (streamPromise.value \in Errors \/ pollPromise.value \in Errors) )
  => \E i \in DOMAIN calls : calls[i].cb = "onError" /\ calls[i].arg = job.error

\* C8: the progress values the caller receives are non-decreasing, and once
\* a terminal callback has fired only terminal callbacks follow.
C8_ProgressMonotoneTerminalLast ==
  \A i, j \in DOMAIN calls :
    i < j =>
      /\ (calls[i].cb = "onProgress" /\ calls[j].cb = "onProgress")
           => calls[i].arg <= calls[j].arg
      /\ IsTerminalCall(calls[i]) => IsTerminalCall(calls[j])

\* rising progress seen on the push channel, then by polling, then the end
C8_Witness ==
  \E i, j, k \in DOMAIN calls :
    /\ i < j /\ j < k
    /\ calls[i].cb = "onProgress" /\ calls[i].via = "push"
    /\ calls[j].cb = "onProgress" /\ calls[j].via = "poll"
    /\ calls[i].arg < calls[j].arg
    /\ IsTerminalCall(calls[k])

\* ------------------------------------------------------------- stream
\* the part of the body the reader has returned so far
Received ==
  LET body == BodyOf(sent) IN SubSeq(body, 1, Len(body) - Len(rest))

\* the lines of the server that have arrived whole, newline included
DeliveredItems ==
  LET rcv == Received
  IN SubSeq(sent, 1, Cardinality({i \in DOMAIN rcv : rcv[i] = NL}))

RECURSIVE ConcatDeltas(_)
ConcatDeltas(items) ==
  IF items = <<>> THEN <<>>
  ELSE (IF Head(items).type = "content" THEN <<Head(items).delta>> ELSE <<>>)
       \o ConcatDeltas(Tail(items))

AssistantMessages == {i \in DOMAIN messages : messages[i].id = AssistantId}

\* C9: however the body has been split into chunks so far, the callbacks
\* dispatched and the buffered partial line are those of reading the same
\* bytes as a single chunk.
C9_ChunkingInvariant ==
  streamPc \in {"reading", "returned"} =>
    LET one == ProcessChunk(InitialStore, <<>>, Received)
    IN /\ dispatched = one.store.dispatched
       /\ buffer = one.buffer

\* a chunk ended inside the JSON of a data line, after an event was dispatched
C9_Witness ==
  /\ streamPc = "reading"
  /\ Len(dispatched) >= 1
  /\ Len(buffer) = Len(DataPrefix) + 1
  /\ StartsWithData(buffer)

\* C10: once the content lines d1..dn and a done line have arrived (and no
\* error line), the assistant message of the chat store holds d1 + ... + dn.
C10_RoundTrip ==
  LET items == DeliveredItems
  IN ( /\ streamPc \in {"reading", "returned"}
       /\ \E i \in DOMAIN items : items[i].type = "done"
       /\ \A i \in DOMAIN items : items[i].type # "error" )
     => /\ AssistantMessages # {}
        /\ \A i \in AssistantMessages :
             messages[i].content = ConcatDeltas(items)

\* two different deltas and done have arrived
C10_Witness ==
  /\ streamPc = "returned"
  /\ LET items == DeliveredItems
     IN \E i \in DOMAIN items : items[i].type = "done"
  /\ \E i \in AssistantMessages : messages[i].content = <<"a", "b">>

\* ------------------------------------------------ stream, terminal events
IsTerminalDispatch(d) == d.cb \in {"onDone", "onError"}

TerminalDispatches == {i \in DOMAIN dispatched : IsTerminalDispatch(dispatched[i])}

\* C11: when executeStream has returned normally, a done or an error event
\* was dispatched before: a body that ends without a terminal event does not
\* make the call return as if the stream had completed.
C11_NoSilentCompletion ==
  streamPc = "returned" => TerminalDispatches # {}

\* C12: no callback is dispatched after onDone or onError, and a call that
\* has ended dispatched exactly one of them.
C12_ExactlyOneTerminalClosesStream ==
  /\ \A i, j \in DOMAIN dispatched :
       i < j => ~IsTerminalDispatch(dispatched[i])
  /\ streamPc \in {"returned", "threw"} => Cardinality(TerminalDispatches) = 1

\* ------------------------------------------------- push phase, transports
\* C19: in a session that is not cancelled, a step of onmessage on a job
\* frame reports the frame's progress; on a completed frame it ends with
\* onComplete, on a failed frame with onError, and in both cases the
\* subscription is closed and no poll loop is started.
C19_PushFrameReportsAndTerminates ==
  [][ ( /\ SseMessage
        /\ ~cancelled
        /\ Head(channel).kind = "json"
        /\ Head(channel).status # Null )
      => LET f == Head(channel)
         IN /\ Len(calls') > Len(calls)
            /\ calls'[Len(calls) + 1] = Call("onProgress", f.progress, "push")
            /\ f.status = "completed" =>
                 /\ calls'[Len(calls')].cb = "onComplete"
                 /\ es' = "closed" /\ pollPc' = "none"
            /\ f.status = "failed" =>
                 /\ calls'[Len(calls')].cb = "onError"
                 /\ es' = "closed" /\ pollPc' = "none" ]_vars

\* C20: the subscription is never open while the poll loop runs; the poll
\* loop starts only in a step that leaves the subscription closed, it never
\* starts a second time, and a subscription that is not open is never opened.
C20_OneTransportAtATime ==
  [][ /\ ~(es' = "open" /\ pollPc' \in {"requesting", "waiting"})
      /\ (pollPc = "none" /\ pollPc' # "none") => es' = "closed"
      /\ pollPc # "none" => (pollPc' # "none" /\ fallbackActive' = fallbackActive)
      /\ es # "open" => es' # "open" ]_vars

\* the push phase failed and the poll loop is waiting for its next read
C20_Witness ==
  /\ useStreaming
  /\ fallbackActive
  /\ es = "closed"
  /\ pollPc = "waiting"
  /\ attempts >= 1

\* ------------------------------------------------------ poll loop, ending
\* a step in which poll() issues a status read
ReadIssued == pollPc # "requesting" /\ pollPc' = "requesting"

\* a step in which poll() finds the attempt limit exceeded
LimitHit == attempts = maxAttempts /\ attempts' = maxAttempts + 1

TimeoutReported ==
  \E i \in DOMAIN calls : calls[i] = Call("onError", MsgPollTimeout, "poll")

\* C21: every status read is counted by attempts and none is issued beyond
\* maxAttempts; the invocation of poll() that follows the maxAttempts-th
\* read ends the loop with the timeout error, passed to onError (which
\* reaches the caller unless cancel() was called); and a poll loop that has
\* started ends.
C21_PollLoopTerminates ==
  /\ [][ /\ ReadIssued => (attempts' = attempts + 1 /\ attempts' <= maxAttempts)
         /\ attempts' # attempts => attempts' = attempts + 1
         /\ LimitHit =>
              /\ pollPc = "waiting"
              /\ pollPc' = "done"
              /\ pollPromise' = Rejected(MsgPollTimeout)
              /\ ~cancelled =>
                   /\ Len(calls') > Len(calls)
                   /\ calls'[Len(calls) + 1] = Call("onError", MsgPollTimeout, "poll")
                   /\ \A i \in (Len(calls) + 1)..Len(calls') :
                        calls'[i] = Call("onError", MsgPollTimeout, "poll")
         /\ pollPc = "done" => (pollPc' = "done" /\ attempts' = attempts) ]_vars
  /\ (pollPc # "none") ~> (pollPc = "done")

\* the job was still running at the last allowed read, and the timeout
\* error reached the caller
C21_Witness ==
  /\ ~cancelled
  /\ attempts = maxAttempts + 1
  /\ job.status = "running"
  /\ pollPc = "done"
  /\ Count("onProgress") >= maxAttempts
  /\ TimeoutReported

\* ------------------------------------------------- push phase, its timer
\* C22: while the subscription is open the 5 minute timer is pending, no
\* terminal frame was handled and the stream promise is unsettled; when the
\* timer fires in that state the subscription is closed and, unless the
\* session was cancelled, the first poll is made; and an open subscription
\* does not stay open for ever.
C22_StalledPushFallsBack ==
  /\ [][ /\ es = "open" =>
              (sseTimer = "pending" /\ ~completed /\ streamPromise = Pending)
         /\ (es = "open" /\ sseTimer = "pending" /\ sseTimer' = "fired") =>
              /\ es' = "closed"
              /\ channel' = <<>>
              /\ streamPromise' = Rejected(MsgStreamTimeout)
              /\ calls' = calls
              /\ ~cancelled =>
                   (fallbackActive' /\ attempts' = 1 /\ pollPc' = "requesting")
              /\ cancelled => (pollPc' = "none" /\ ~fallbackActive') ]_vars
  /\ (es = "open") ~> (es = "closed")

\* the server pushed progress and then nothing; the timer ended the push
\* phase and the poll loop is at work
C22_Witness ==
  /\ ~cancelled
  /\ streamPromise = Rejected(MsgStreamTimeout)
  /\ sseTimer = "fired"
  /\ es = "closed"
  /\ Count("onProgress") >= 1
  /\ pollPc \in {"requesting", "waiting"}

\* ---------------------------------------------------------- rate limiter
\* the admitted calls in the window that ends at time t: t - ts < timeWindow
AdmittedInWindow(t) ==
  {j \in DOMAIN admitted : admitted[j] <= t /\ t - admitted[j] < timeWindow}

\* C13: of the calls admitted by the one limiter of the chat store, whatever
\* the handler and the agent, at most maxRequests lie in any window of
\* timeWindow ms: admission times never decrease, and any maxRequests + 1
\* consecutive admissions span at least timeWindow ms.
C13_AtMostMaxPerWindow ==
  /\ \A i \in 1..(Len(admitted) - 1) : admitted[i] <= admitted[i + 1]
  /\ \A i \in 1..(Len(admitted) - maxRequests) :
       admitted[i + maxRequests] - admitted[i] >= timeWindow

\* both handlers and both agents were admitted, a call was denied, and
\* admissions resumed in a later window
C13_Witness ==
  /\ Cardinality(admittedBy) = 4
  /\ lastDenied # Never
  /\ Len(admitted) > maxRequests

\* C14: a call at time t returns true exactly when fewer than maxRequests
\* admitted calls have a time ts with t - ts < timeWindow.
C14_AdmittedIffWindowNotFull ==
  [][ (admitted' # admitted \/ lastDenied' # lastDenied)
      => ( (admitted' # admitted)
           <=> Cardinality(AdmittedInWindow(now)) < maxRequests ) ]_vars

\* ten calls admitted at time 0, the next denied one millisecond before the
\* window has elapsed, and the one made when it has elapsed admitted
C14_Witness ==
  /\ Len(admitted) = maxRequests + 1
  /\ admitted[maxRequests] = 0
  /\ lastDenied = timeWindow - 1
  /\ admitted[maxRequests + 1] = timeWindow

\* the earliest time from now on at which canMakeRequest would return true
NextAdmission(tss) ==
  LET Full(t) == Len(SelectSeq(tss, LAMBDA ts : t - ts < timeWindow)) >= maxRequests
      cand == {now} \cup {tss[i] + timeWindow : i \in DOMAIN tss}
  IN CHOOSE t \in cand :
       /\ t >= now /\ ~Full(t)
       /\ \A u \in cand : (u >= now /\ ~Full(u)) => t <= u

\* C15: a call that returns false records nothing: the timestamps still in
\* the window are the same as before, and so is the time of the next
\* admission.
C15_DeniedNotCounted ==
  [][ lastDenied' # lastDenied
      => /\ admitted' = admitted
         /\ timestamps' = SelectSeq(timestamps, LAMBDA ts : now - ts < timeWindow)
         /\ NextAdmission(timestamps') = NextAdmission(timestamps) ]_vars

\* a call was denied after the clock had moved, and a later window admitted
C15_Witness ==
  /\ lastDenied > 0
  /\ Len(admitted) > maxRequests
  /\ Len(timestamps) = 1

\* --------------------------------------------------------- history store
\* a step in which saveHistory has called safeSetItem with the messages the
\* store holds after the step: the reply of agentsApi.execute has arrived,
\* or saveHistory was called on its own
SaveStep ==
  /\ messages' # <<>>
  /\ \/ inFlight # Null /\ inFlight' = Null /\ storeError' = Null
     \/ /\ inFlight' = inFlight /\ messages' = messages
        /\ (lastSave' # lastSave \/ localStorage' # localStorage)

\* a step in which setAgent has loaded the history of the agent it selects
LoadStep == lastLoad' # lastLoad \/ currentAgent' # currentAgent

\* the item stored under the key of the selected agent
StoredHistory == localStorage[HistoryKey(currentAgent)]

\* the stored history of the selected agent after the step holds the last
\* min(n, 100) of the n messages of the store, in order: id and role as they
\* are, the content sanitized
LastHundredStored ==
  LET n == Len(messages')
      k == IF n <= MAX_MESSAGES_PER_AGENT THEN n ELSE MAX_MESSAGES_PER_AGENT
      it == localStorage'[HistoryKey(currentAgent)]
  IN /\ it.kind = "envelope"
     /\ Len(it.data) = k
     /\ \A i \in 1..k :
          /\ it.data[i].id = messages'[n - k + i].id
          /\ it.data[i].role = messages'[n - k + i].role
          /\ it.data[i].content = sanitizeInput(messages'[n - k + i].content)

Malformed(item) ==
  \/ item.kind \in {"empty", "text", "nodata"}
  \/ item.kind = "envelope" /\ (item.version # "1.0" \/ ~item.wellFormed)

\* C17 as stated: selecting an agent whose stored history is malformed (not
\* JSON, no data field, another version, not an array of messages) leaves
\* the store with no messages and removes the stored value.
C17_MalformedDiscarded ==
  [][ (LoadStep /\ Malformed(localStorage[lastLoad'.key]))
      => /\ messages' = <<>>
         /\ localStorage'[lastLoad'.key] = AbsentItem ]_vars

\* C17 amended: the same for every malformed value but the empty string,
\* which yields no messages as well and stays where it is.
C17_MalformedNonEmptyDiscarded ==
  [][ (LoadStep /\ Malformed(localStorage[lastLoad'.key]))
      => /\ messages' = <<>>
         /\ localStorage'[lastLoad'.key] =
              IF localStorage[lastLoad'.key].kind = "empty"
                THEN EmptyItem ELSE AbsentItem ]_vars

\* an envelope was read, rejected and removed, and the store is empty
C17_Witness ==
  /\ currentAgent # Null
  /\ lastLoad = [key |-> HistoryKey(currentAgent), kind |-> "envelope", found |-> FALSE]
  /\ messages = <<>>
  /\ StoredHistory = AbsentItem

\* C18: after a safeSetItem call that returned true, the stored items
\* together take at most MAX_STORAGE_SIZE.
C18_UnderQuotaAfterSave ==
  [][ (SaveStep /\ lastSave'.ok)
      => getStorageSize(localStorage') <= MAX_STORAGE_SIZE ]_vars

\* C23: a safeSetItem call whose setItem raised a quota error has called
\* setItem exactly twice; it returned true exactly when the second call did
\* not raise, and then the key holds the envelope written now and the
\* storage is within the browser's quota; when the second call raised too
\* it returned false, the key holds nothing new, and the handler that was
\* saving ended normally.  A call whose first setItem did not raise made no
\* second one.
C23_QuotaErrorRetriedOnce ==
  [][ SaveStep =>
        /\ lastSave'.threw <= lastSave'.writes
        /\ lastSave'.threw = 0 => lastSave'.writes <= 1
        /\ lastSave'.threw >= 1 =>
             /\ lastSave'.writes = 2
             /\ lastSave'.ok <=> lastSave'.threw = 1
             /\ lastSave'.ok =>
                  /\ LastHundredStored
                  /\ localStorage'[lastSave'.key].timestamp = now
                  /\ getStorageSize(localStorage') <= BrowserQuota
             /\ ~lastSave'.ok =>
                  /\ localStorage'[lastSave'.key] \in {AbsentItem, localStorage[lastSave'.key]}
                  /\ inFlight # Null => (inFlight' = Null /\ ~isExecuting') ]_vars

\* the write raised, histories were evicted, the retry raised again and the
\* save was given up: nothing is stored under the agent's key
C23_Witness ==
  /\ currentAgent # Null
  /\ lastSave = [key |-> HistoryKey(currentAgent), ok |-> FALSE, writes |-> 2,
                 threw |-> 2]
  /\ StoredHistory = AbsentItem
  /\ ~isExecuting

\* the write raised, histories were evicted and the retry stored the history
RetrySucceeded ==
  /\ currentAgent # Null
  /\ lastSave = [key |-> HistoryKey(currentAgent), ok |-> TRUE, writes |-> 2,
                 threw |-> 1]
  /\ StoredHistory.timestamp = now

\* a step in which the answer of agentsApi.execute is handled
AnswerStep == inFlight # Null /\ inFlight' = Null /\ storeError' = Null

\* C24: when the answer of a request arrives while another agent than the
\* one it was sent to is selected, the messages shown and the history stored
\* for the selected agent stay as they are.
C24_ReplyStaysWithItsAgent ==
  [][ (AnswerStep /\ currentAgent # inFlight)
      => /\ messages' = messages
         /\ localStorage'[HistoryKey(currentAgent)] =
              localStorage[HistoryKey(currentAgent)] ]_vars

\* ---------------------------------------------------- stream, its ending
\* C25: when the executeStream call of an admitted sendMessageStreaming has
\* ended, by returning or by throwing, isExecuting is false again.
C25_StreamEndResetsExecuting ==
  streamPc \in {"returned", "threw"} => ~isExecuting

RECURSIVE ExpectedDispatch(_)
\* the callbacks the lines the server wrote call for, in order: one for each
\* well-formed event, none for a cut data line or a line without the prefix
ExpectedDispatch(items) ==
  IF items = <<>> THEN <<>>
  ELSE LET it == Head(items)
           cb == CASE it.type = "metadata" -> <<[cb |-> "onMetadata", arg |-> Null]>>
                   [] it.type = "context"  -> <<[cb |-> "onContext", arg |-> Null]>>
                   [] it.type = "content"  -> <<[cb |-> "onContent", arg |-> it.delta]>>
                   [] it.type = "done"     -> <<[cb |-> "onDone", arg |-> Null]>>
                   [] it.type = "error"    -> <<[cb |-> "onError", arg |-> "e"]>>
                   [] OTHER                -> <<>>
       IN cb \o ExpectedDispatch(Tail(items))

\* C29: the callbacks dispatched are exactly those of the well-formed lines
\* that have arrived, in the order of the lines: a data line that is not
\* valid JSON and a line without the data prefix add nothing, no onError
\* included, and do not end the call.  Only a failed fetch or read adds the
\* onError of the catch block, and only then has the call thrown.
C29_MalformedLinesSkipped ==
  /\ streamPc \in {"fetching", "reading", "returned"} =>
       dispatched = ExpectedDispatch(DeliveredItems)
  /\ streamPc = "threw" =>
       dispatched = Append(ExpectedDispatch(DeliveredItems),
                           [cb |-> "onError", arg |-> MsgStreamError])

\* a cut data line and a line without the prefix arrived, then a content
\* line, which alone was dispatched, and the call returned
C29_Witness ==
  /\ streamPc = "returned"
  /\ Len(sent) = 3
  /\ sent[1].type = "garbage"
  /\ sent[2].type = "comment"
  /\ sent[3].type = "content"
  /\ dispatched = <<[cb |-> "onContent", arg |-> sent[3].delta]>>

\* --------------------------------------------------- job session, cancel
\* C26: a cancelled session does no work: the step that sets cancelled
\* leaves the subscription closed and no poll timer pending, and no later
\* step issues a status read or leaves the subscription open.
C26_CancelStopsWork ==
  [][ /\ cancelled' => (es' # "open" /\ pollPc' # "waiting")
      /\ cancelled => ~ReadIssued ]_vars

\* ------------------------------------------------ poll loop, failed read
ReadErrors == {MsgReadFailed, MsgNotFound}

\* a step in which the status read of poll() is rejected
ReadFailedStep == pollPc = "requesting" /\ pollPromise'.value \in ReadErrors

\* C28: a rejected status read ends the poll loop in the same step: the
\* caller, unless it has cancelled, receives one onError with the message
\* of the rejection, its only onError of the session, and nothing else;
\* and a poll loop that has ended issues no status read.
C28_FailedReadEndsPolling ==
  [][ /\ ReadFailedStep =>
           /\ pollPc' = "done"
           /\ pollPromise' = Rejected(pollPromise'.value)
           /\ calls' = IF cancelled THEN calls
                       ELSE Append(calls, Call("onError", pollPromise'.value, "poll"))
           /\ \A i \in DOMAIN calls : calls[i].cb # "onError"
      /\ pollPc = "done" => (pollPc' = "done" /\ calls' = calls) ]_vars

\* after a fallback and a progress report the read failed for a job id the
\* server does not know: one onError, with the message of the rejection
C28_Witness ==
  /\ ~cancelled
  /\ fallbackActive
  /\ pollPc = "done"
  /\ pollPromise = Rejected(MsgNotFound)
  /\ Count("onProgress") >= 1
  /\ Count("onError") = 1
  /\ Last(calls) = Call("onError", MsgNotFound, "poll")

\* ----------------------------------------------------------- rejected send
\* a step in which a send handler returned early
RejectedStep ==
  /\ rejected' # Null
  /\ rejected' # rejected \/ lastDenied' # lastDenied

\* C27: a send that returns early, for any of the four reasons, leaves the
\* messages, isExecuting and the error of the store as they are, sends no
\* request, changes nothing in localStorage and adds no timestamp to the
\* rate limiter: the limiter is not asked at all unless agent and message
\* are valid, and a denial only drops the timestamps that have left the
\* window.
C27_RejectedSendHasNoEffect ==
  [][ RejectedStep =>
        /\ messages' = messages
        /\ isExecuting' = isExecuting
        /\ storeError' = storeError
        /\ sends' = sends
        /\ inFlight' = inFlight
        /\ assistantMessageId' = assistantMessageId
        /\ localStorage' = localStorage
        /\ admitted' = admitted
        /\ timestamps' =
             IF rejected' = "rateLimited"
               THEN SelectSeq(timestamps, LAMBDA ts : now - ts < timeWindow)
               ELSE timestamps
        /\ rejected' = "rateLimited" =>
             (lastDenied' = now /\ Len(timestamps') >= maxRequests) ]_vars

\* the limiter denied a send, admitted one when the window had passed, the
\* request failed, and the next send, of blanks, was rejected: the error and
\* the conversation are still there
C27_Witness ==
  /\ rejected = "badMessage"
  /\ lastDenied # Never
  /\ Len(admitted) > maxRequests
  /\ storeError # Null
  /\ ~isExecuting
  /\ Len(messages) >= 2

\* ---------------------------------------------------------- quota eviction
\* the item is a history with an envelope timestamp
HasTimestamp(item) == item.kind \in {"envelope", "nodata"}

\* the step removes the history stored under k and writes nothing there
Evicted(k) ==
  /\ localStorage[k].kind # "absent"
  /\ localStorage'[k].kind = "absent"

\* the history stored under j is still stored after the step
Remains(j) ==
  /\ localStorage[j].kind # "absent"
  /\ localStorage'[j] = localStorage[j]

\* C30: a call of safeSetItem by saveHistory leaves every key without the
\* chat_history_ prefix (auth_token) with the value it had, whatever it
\* evicts, and evicts no history while a history with an older envelope
\* timestamp stays in localStorage.
C30_EvictionOnlyOldestHistories ==
  [][ SaveStep =>
        /\ localStorage'[AuthKey] = localStorage[AuthKey]
        /\ \A k, j \in HistoryKeys :
             (/\ Evicted(k) /\ Remains(j)
              /\ HasTimestamp(localStorage[k]) /\ HasTimestamp(localStorage[j]))
               => localStorage[k].timestamp <= localStorage[j].timestamp ]_vars

\* a write has raised QuotaExceededError and histories have been evicted,
\* a history of an earlier run is still stored beside them, and auth_token
\* still holds its value
C30_Witness ==
  /\ lastSave.threw >= 1
  /\ localStorage[AuthKey] = TextItem
  /\ \E k \in HistoryKeys : localStorage[k].kind = "absent"
  /\ \E j \in HistoryKeys \ {lastSave.key} :
       /\ HasTimestamp(localStorage[j])
       /\ localStorage[j].timestamp < now

====
